---- MODULE Spec2Model ----
(***************************************************************************)
(* A model of the Tracer Modbus client (SolarTracer.py).                   *)
(*                                                                         *)
(* and of the logger that drives it (logtracer.py).                        *)
(*                                                                         *)
(* Three specifications:                                                   *)
(*   Spec      the client's session: construction, the transport          *)
(*             operations with every transport outcome, destruction;       *)
(*   SpecPure  the pure decoders, applied to inputs drawn from bounded     *)
(*             sets;                                                       *)
(*   SpecLog   the logger's continuous loop on a constructed client.       *)
(*                                                                         *)
(* Python floats are IEEE-754 doubles.  A double is modelled bit-exactly   *)
(* as [sig, exp]: sig is the 53-bit significand, most significant bit      *)
(* first (sig[1] = 1), exp the power of two of sig[1]; zero is             *)
(* [sig |-> <<>>, exp |-> 0].  Integers wider than 32 bits are bit         *)
(* sequences, most significant bit first, without leading zeros.           *)
(***************************************************************************)
EXTENDS Integers, Sequences, FiniteSets, TLC

----------------------------------------------------------------------------
(* Arbitrary-precision naturals as bit sequences *)

RECURSIVE NatToBits(_)
NatToBits(n) ==
    IF n = 0 THEN <<>> ELSE Append(NatToBits(n \div 2), n % 2)

RECURSIVE BitsToNat(_)
BitsToNat(s) ==
    IF s = <<>> THEN 0
    ELSE 2 * BitsToNat(SubSeq(s, 1, Len(s) - 1)) + s[Len(s)]

\* s * k + c
RECURSIVE MulAdd(_, _, _)
MulAdd(s, k, c) ==
    IF s = <<>> THEN NatToBits(c)
    ELSE LET t == s[Len(s)] * k + c
         IN  IF t % 2 = 0
             THEN Append(MulAdd(SubSeq(s, 1, Len(s) - 1), k, t \div 2), 0)
             ELSE Append(MulAdd(SubSeq(s, 1, Len(s) - 1), k, t \div 2), 1)

\* s + 1 on a fixed-width significand; the carry out of the top bit is kept
RECURSIVE BitsInc(_)
BitsInc(s) ==
    IF s = <<>> THEN <<1>>
    ELSE IF s[Len(s)] = 0 THEN Append(SubSeq(s, 1, Len(s) - 1), 1)
    ELSE Append(BitsInc(SubSeq(s, 1, Len(s) - 1)), 0)

AnyOne(s) == \E i \in 1..Len(s) : s[i] = 1

----------------------------------------------------------------------------
(* IEEE-754 double arithmetic, round to nearest, ties to even *)

MantBits == 53

FloatZero == [neg |-> FALSE, sig |-> <<>>, exp |-> 0]

\* a Python int as sign and magnitude
Big(n) == [neg |-> n < 0, mag |-> NatToBits(IF n < 0 THEN -n ELSE n)]

\* sig (MantBits bits) rounded up by one unit in the last place
RoundUp(neg, sig, exp) ==
    LET t == BitsInc(sig)
    IN  IF Len(t) > MantBits
        THEN [neg |-> neg, sig |-> SubSeq(t, 1, MantBits), exp |-> exp + 1]
        ELSE [neg |-> neg, sig |-> t, exp |-> exp]

\* long division by d, one quotient bit a step.  st = <<s, r, q, e, qe>>:
\* s the dividend bits not yet used (zeros follow them), r the running
\* remainder, q the significant quotient bits so far, e the weight of the
\* next quotient bit, qe the weight of q[1]
RECURSIVE DivBits(_, _, _)
DivBits(neg, d, st) ==
    LET s  == st[1]
        r  == st[2]
        q  == st[3]
        e  == st[4]
        qe == st[5]
    IN  IF Len(q) = MantBits
        THEN IF 2 * r > d \/ (2 * r = d /\ (q[MantBits] = 1 \/ AnyOne(s)))
             THEN RoundUp(neg, q, qe)
             ELSE [neg |-> neg, sig |-> q, exp |-> qe]
        ELSE LET b  == IF s = <<>> THEN 0 ELSE s[1]
                 r2 == 2 * r + b
                 qb == IF r2 >= d THEN 1 ELSE 0
                 s2 == IF s = <<>> THEN <<>> ELSE Tail(s)
             IN  IF q = <<>> /\ qb = 0
                 THEN DivBits(neg, d, <<s2, r2, q, e - 1, qe>>)
                 ELSE DivBits(neg, d, <<s2, r2 - qb * d, Append(q, qb), e - 1,
                                        IF q = <<>> THEN e ELSE qe>>)

\* n / d in Python for an int n of magnitude below 2^53 (its conversion to a
\* double is then exact) and a small positive d: the correctly rounded quotient
FloatDiv(n, d) ==
    IF n.mag = <<>> THEN FloatZero
    ELSE DivBits(n.neg, d, <<n.mag, 0, <<>>, Len(n.mag) - 1, 0>>)

\* b * x in Python for an int b >= 0 (exact as a double) and a double x
FloatMulInt(b, x) ==
    IF b = 0 \/ x.sig = <<>> THEN FloatZero
    ELSE LET p     == MulAdd(x.sig, b, 0)
             extra == Len(p) - MantBits
             sig   == SubSeq(p, 1, MantBits)
             rest  == SubSeq(p, MantBits + 1, Len(p))
             up    == /\ extra > 0
                      /\ rest[1] = 1
                      /\ (AnyOne(Tail(rest)) \/ sig[MantBits] = 1)
         IN  IF up THEN RoundUp(x.neg, sig, x.exp + extra)
             ELSE [neg |-> x.neg, sig |-> sig, exp |-> x.exp + extra]

\* int(x): truncation toward zero
FloatToInt(x) ==
    IF x.sig = <<>> \/ x.exp < 0 THEN 0
    ELSE LET m == BitsToNat(SubSeq(x.sig, 1, x.exp + 1))
         IN  IF x.neg THEN -m ELSE m

----------------------------------------------------------------------------
(* Python values *)

PyNone == [t |-> "None"]
PyDict(m) == [t |-> "dict", v |-> m]
PyBool(b) == [t |-> "bool", v |-> b]
PyInt(i) == [t |-> "int", v |-> i]
PyFloat(f) == [t |-> "float", v |-> f]
\* a call that ends by raising instead of returning
Raised(e) == [t |-> "raise", v |-> e]
EmptyDict == PyDict(<<>>)

\* regs[i]: Python indexes from 0
At(regs, i) == regs[i + 1]

\* a & b on non-negative ints
RECURSIVE BitAnd(_, _)
BitAnd(a, b) ==
    IF a = 0 \/ b = 0 THEN 0
    ELSE (a % 2) * (b % 2) + 2 * BitAnd(a \div 2, b \div 2)

RECURSIVE Pow2(_)
Pow2(k) == IF k = 0 THEN 1 ELSE 2 * Pow2(k - 1)

\* a >> k on a non-negative int
ShiftR(a, k) == a \div Pow2(k)

\* bool(x) of an int
Truthy(x) == x # 0

----------------------------------------------------------------------------
(* Register map and presets *)

RATED_BASE == 12288       \* 0x3000
REALTIME_BASE == 12544    \* 0x3100
STATS_BASE == 13056       \* 0x3300
SETTING_BASE == 36864     \* 0x9000
COIL_MANUAL == 2          \* 0x0002
COIL_TEST == 5            \* 0x0005
COIL_FORCE == 6           \* 0x0006
INPUT_OVER_TEMP == 8192   \* 0x2000
INPUT_DAY_NIGHT == 8204   \* 0x200C

\* the register map: the address of each named register
RATED_REGISTERS ==
    [   PV_rated_voltage |-> 12288,          \* 0x3000
        PV_rated_current |-> 12289,          \* 0x3001
        PV_rated_power_L |-> 12290,          \* 0x3002
        PV_rated_power_H |-> 12291,          \* 0x3003
        battery_rated_voltage |-> 12292,     \* 0x3004
        rated_charging_current |-> 12293,    \* 0x3005
        rated_charging_power_L |-> 12294,    \* 0x3006
        rated_charging_power_H |-> 12295,    \* 0x3007
        charging_mode |-> 12296,             \* 0x3008
        rated_load_current |-> 12302]        \* 0x300E

REALTIME_REGISTERS ==
    [   PV_voltage |-> 12544,                      \* 0x3100
        PV_current |-> 12545,                      \* 0x3101
        PV_power_L |-> 12546,                      \* 0x3102
        PV_power_H |-> 12547,                      \* 0x3103
        battery_voltage |-> 12548,                 \* 0x3104
        battery_current |-> 12549,                 \* 0x3105
        battery_power_L |-> 12550,                 \* 0x3106
        battery_power_H |-> 12551,                 \* 0x3107
        load_voltage |-> 12556,                    \* 0x310C
        load_current |-> 12557,                    \* 0x310D
        load_power_L |-> 12558,                    \* 0x310E
        load_power_H |-> 12559,                    \* 0x310F
        battery_temperature |-> 12560,             \* 0x3110
        case_temperature |-> 12561,                \* 0x3111
        power_components_temperature |-> 12562,    \* 0x3112
        battery_SOC |-> 12570,                     \* 0x311A
        remote_battery_temperature |-> 12571,      \* 0x311B
        battery_real_rated_voltage |-> 12573]      \* 0x311D

STATS_REGISTERS ==
    [   max_PV_voltage_today |-> 13056,         \* 0x3300
        min_PV_voltage_today |-> 13057,         \* 0x3301
        max_battery_voltage_today |-> 13058,    \* 0x3302
        min_battery_voltage_today |-> 13059,    \* 0x3303
        consumed_energy_today_L |-> 13060,      \* 0x3304
        consumed_energy_today_H |-> 13061,      \* 0x3305
        consumed_energy_month_L |-> 13062,      \* 0x3306
        consumed_energy_month_H |-> 13063,      \* 0x3307
        consumed_energy_year_L |-> 13064,       \* 0x3308
        consumed_energy_year_H |-> 13065,       \* 0x3309
        total_consumed_energy_L |-> 13066,      \* 0x330A
        total_consumed_energy_H |-> 13067,      \* 0x330B
        generated_energy_today_L |-> 13068,     \* 0x330C
        generated_energy_today_H |-> 13069,     \* 0x330D
        generated_energy_month_L |-> 13070,     \* 0x330E
        generated_energy_month_H |-> 13071,     \* 0x330F
        generated_energy_year_L |-> 13072,      \* 0x3310
        generated_energy_year_H |-> 13073,      \* 0x3311
        total_generated_energy_L |-> 13074,     \* 0x3312
        total_generated_energy_H |-> 13075,     \* 0x3313
        CO2_reduction_L |-> 13076,              \* 0x3314
        CO2_reduction_H |-> 13077,              \* 0x3315
        net_battery_current_L |-> 13083,        \* 0x331B
        net_battery_current_H |-> 13084,        \* 0x331C
        battery_temp |-> 13085,                 \* 0x331D
        ambient_temp |-> 13086]                 \* 0x331E

BATTERY_LEAD_ACID ==
    <<0, 300, 300, 1620, 1500, 1500, 1460, 1440, 1380, 1630, 1260, 1220, 1200, 1110, 1060>>
BATTERY_LIFEPO4 ==
    <<0, 300, 300, 1500, 1460, 1420, 1400, 1380, 1380, 1320, 1240, 1200, 1160, 1080, 1040>>

----------------------------------------------------------------------------
(* Pure functions of the client *)

\* a slip: the high word read as a signed 16-bit value
CombinedIntSigned(low_reg, high_reg) ==
    LET h == IF high_reg >= 32768 THEN high_reg - 65536 ELSE high_reg
    IN  IF h >= 0
        THEN [neg |-> FALSE, mag |-> MulAdd(NatToBits(h), 65536, low_reg)]
        ELSE [neg |-> TRUE,
              mag |-> MulAdd(NatToBits(-h - 1), 65536, 65536 - low_reg)]

\* (high_reg * 65536 + low_reg) as a Python int; low_reg is a register word
CombinedInt(low_reg, high_reg) ==
    IF high_reg >= 0
    THEN [neg |-> FALSE, mag |-> MulAdd(NatToBits(high_reg), 65536, low_reg)]
    ELSE [neg |-> TRUE,
          mag |-> MulAdd(NatToBits(-high_reg - 1), 65536, 65536 - low_reg)]

combine32BitValue(low_reg, high_reg) ==
    FloatDiv(CombinedInt(low_reg, high_reg), 100)

VOLTAGE_STATUS ==
    <<"Normal", "Overvolt", "Under Volt", "Low Volt Disconnect", "Fault">>
TEMPERATURE_STATUS == <<"Normal", "Over Temp", "Low Temp">>
INPUT_VOLTAGE_STATUS ==
    <<"Normal", "No power", "Higher volt input", "Input volt error">>
CHARGING_STATUS == <<"No charging", "Float", "Boost", "Equalization">>

\* a slip: the temperature index taken without the modulo
decodeBatteryStatusNoMod(status_value) ==
    LET vi == BitAnd(status_value, 15)
        ti == BitAnd(ShiftR(status_value, 4), 15)
    IN  IF vi >= Len(VOLTAGE_STATUS) \/ ti >= Len(TEMPERATURE_STATUS)
        THEN Raised("IndexError")
        ELSE PyDict([
            voltage_status |-> At(VOLTAGE_STATUS, vi),
            temperature_status |-> At(TEMPERATURE_STATUS, ti),
            internal_resistance_abnormal |-> Truthy(BitAnd(status_value, 256)),
            wrong_voltage_identification |-> Truthy(BitAnd(status_value, 32768))])

decodeBatteryStatus(status_value) ==
    LET vi == BitAnd(status_value, 15)
        ti == BitAnd(ShiftR(status_value, 4), 15) % 3
    IN  IF vi >= Len(VOLTAGE_STATUS) \/ ti >= Len(TEMPERATURE_STATUS)
        THEN Raised("IndexError")
        ELSE PyDict([
            voltage_status |-> At(VOLTAGE_STATUS, vi),
            temperature_status |-> At(TEMPERATURE_STATUS, ti),
            internal_resistance_abnormal |-> Truthy(BitAnd(status_value, 256)),
            wrong_voltage_identification |-> Truthy(BitAnd(status_value, 32768))])

\* a slip: the charging status taken from bits 3-4
decodeChargingStatusShift3(status_value) ==
    LET ii == BitAnd(ShiftR(status_value, 14), 3)
        ci == BitAnd(ShiftR(status_value, 3), 3)
    IN  IF ii >= Len(INPUT_VOLTAGE_STATUS) \/ ci >= Len(CHARGING_STATUS)
        THEN Raised("IndexError")
        ELSE PyDict([
            input_voltage_status |-> At(INPUT_VOLTAGE_STATUS, ii),
            charging_mosfet_short |-> Truthy(BitAnd(status_value, 8192)),
            charging_anti_reverse_short |-> Truthy(BitAnd(status_value, 4096)),
            anti_reverse_short |-> Truthy(BitAnd(status_value, 2048)),
            input_over_current |-> Truthy(BitAnd(status_value, 1024)),
            load_over_current |-> Truthy(BitAnd(status_value, 512)),
            load_short |-> Truthy(BitAnd(status_value, 256)),
            load_mosfet_short |-> Truthy(BitAnd(status_value, 128)),
            pv_input_short |-> Truthy(BitAnd(status_value, 16)),
            charging_status |-> At(CHARGING_STATUS, ci),
            fault |-> Truthy(BitAnd(status_value, 2)),
            running |-> Truthy(BitAnd(status_value, 1))])

\* a slip: pv_input_short tested with a two-bit mask
decodeChargingStatusWideMask(status_value) ==
    LET ii == BitAnd(ShiftR(status_value, 14), 3)
        ci == BitAnd(ShiftR(status_value, 2), 3)
    IN  IF ii >= Len(INPUT_VOLTAGE_STATUS) \/ ci >= Len(CHARGING_STATUS)
        THEN Raised("IndexError")
        ELSE PyDict([
            input_voltage_status |-> At(INPUT_VOLTAGE_STATUS, ii),
            charging_mosfet_short |-> Truthy(BitAnd(status_value, 8192)),
            charging_anti_reverse_short |-> Truthy(BitAnd(status_value, 4096)),
            anti_reverse_short |-> Truthy(BitAnd(status_value, 2048)),
            input_over_current |-> Truthy(BitAnd(status_value, 1024)),
            load_over_current |-> Truthy(BitAnd(status_value, 512)),
            load_short |-> Truthy(BitAnd(status_value, 256)),
            load_mosfet_short |-> Truthy(BitAnd(status_value, 128)),
            pv_input_short |-> Truthy(BitAnd(status_value, 48)),
            charging_status |-> At(CHARGING_STATUS, ci),
            fault |-> Truthy(BitAnd(status_value, 2)),
            running |-> Truthy(BitAnd(status_value, 1))])

decodeChargingStatus(status_value) ==
    LET ii == BitAnd(ShiftR(status_value, 14), 3)
        ci == BitAnd(ShiftR(status_value, 2), 3)
    IN  IF ii >= Len(INPUT_VOLTAGE_STATUS) \/ ci >= Len(CHARGING_STATUS)
        THEN Raised("IndexError")
        ELSE PyDict([
            input_voltage_status |-> At(INPUT_VOLTAGE_STATUS, ii),
            charging_mosfet_short |-> Truthy(BitAnd(status_value, 8192)),
            charging_anti_reverse_short |-> Truthy(BitAnd(status_value, 4096)),
            anti_reverse_short |-> Truthy(BitAnd(status_value, 2048)),
            input_over_current |-> Truthy(BitAnd(status_value, 1024)),
            load_over_current |-> Truthy(BitAnd(status_value, 512)),
            load_short |-> Truthy(BitAnd(status_value, 256)),
            load_mosfet_short |-> Truthy(BitAnd(status_value, 128)),
            pv_input_short |-> Truthy(BitAnd(status_value, 16)),
            charging_status |-> At(CHARGING_STATUS, ci),
            fault |-> Truthy(BitAnd(status_value, 2)),
            running |-> Truthy(BitAnd(status_value, 1))])

\* x / 100.0 of a register word
Scaled(x) == FloatDiv(Big(x), 100)

\* the settings list setBatterySettings hands to the write: a copy of
\* settings_list, element 1 replaced, elements 3.. scaled in double arithmetic
NewSettings(settings_list, battery_capacity, battery_voltage) ==
    LET volt_adjust == FloatDiv(Big(battery_voltage), 12)
    IN  [idx \in 1..Len(settings_list) |->
            IF idx - 1 = 1 /\ battery_capacity # 100 THEN battery_capacity
            ELSE IF idx - 1 >= 3 /\ battery_voltage > 12
            THEN FloatToInt(FloatMulInt(settings_list[idx], volt_adjust))
            ELSE settings_list[idx]]

----------------------------------------------------------------------------
(* Snapshot decoding: regs is the block returned by read_registers *)

RatedIndexes == {0, 1, 2, 3, 4}
CurrentIndexes == {0, 1, 2, 3, 4, 5, 6, 7, 12, 13, 14, 15, 16, 17, 18, 19}
StatsIndexes == 0..19

\* an index past the end of the list raises IndexError
IndexError(regs, used) == \E i \in used : i >= Len(regs)

DecodeRated(regs) ==
    IF IndexError(regs, RatedIndexes) THEN Raised("IndexError")
    ELSE PyDict([
        pv_rated_voltage |-> Scaled(At(regs, 0)),
        pv_rated_current |-> Scaled(At(regs, 1)),
        pv_rated_power |-> combine32BitValue(At(regs, 2), At(regs, 3)),
        battery_rated_voltage |-> Scaled(At(regs, 4))])

\* a slip: the words of the load power pair taken in the other order
DecodeCurrentSwapped(regs) ==
    IF IndexError(regs, CurrentIndexes) THEN Raised("IndexError")
    ELSE PyDict([
        PVvolt |-> Scaled(At(regs, 0)),
        PVamps |-> Scaled(At(regs, 1)),
        PVwatt |-> combine32BitValue(At(regs, 2), At(regs, 3)),
        BAvolt |-> Scaled(At(regs, 4)),
        BAamps |-> Scaled(At(regs, 5)),
        BAwatt |-> combine32BitValue(At(regs, 6), At(regs, 7)),
        DCvolt |-> Scaled(At(regs, 12)),
        DCamps |-> Scaled(At(regs, 13)),
        DCwatt |-> combine32BitValue(At(regs, 15), At(regs, 14)),
        BAtemp |-> Scaled(At(regs, 16)),
        CTtemp |-> Scaled(At(regs, 17)),
        power_components_temp |-> Scaled(At(regs, 18)),
        BAperc |-> Scaled(At(regs, 19))])

DecodeCurrent(regs) ==
    IF IndexError(regs, CurrentIndexes) THEN Raised("IndexError")
    ELSE PyDict([
        PVvolt |-> Scaled(At(regs, 0)),
        PVamps |-> Scaled(At(regs, 1)),
        PVwatt |-> combine32BitValue(At(regs, 2), At(regs, 3)),
        BAvolt |-> Scaled(At(regs, 4)),
        BAamps |-> Scaled(At(regs, 5)),
        BAwatt |-> combine32BitValue(At(regs, 6), At(regs, 7)),
        DCvolt |-> Scaled(At(regs, 12)),
        DCamps |-> Scaled(At(regs, 13)),
        DCwatt |-> combine32BitValue(At(regs, 14), At(regs, 15)),
        BAtemp |-> Scaled(At(regs, 16)),
        CTtemp |-> Scaled(At(regs, 17)),
        power_components_temp |-> Scaled(At(regs, 18)),
        BAperc |-> Scaled(At(regs, 19))])

\* a slip: the last total decoded from the pair before its own
DecodeStatsRepeated(regs) ==
    IF IndexError(regs, StatsIndexes) THEN Raised("IndexError")
    ELSE PyDict([
        max_pv_voltage_today |-> Scaled(At(regs, 0)),
        min_pv_voltage_today |-> Scaled(At(regs, 1)),
        max_battery_voltage_today |-> Scaled(At(regs, 2)),
        min_battery_voltage_today |-> Scaled(At(regs, 3)),
        consumed_energy_today |-> combine32BitValue(At(regs, 4), At(regs, 5)),
        consumed_energy_month |-> combine32BitValue(At(regs, 6), At(regs, 7)),
        consumed_energy_year |-> combine32BitValue(At(regs, 8), At(regs, 9)),
        total_consumed_energy |-> combine32BitValue(At(regs, 10), At(regs, 11)),
        generated_energy_today |-> combine32BitValue(At(regs, 12), At(regs, 13)),
        generated_energy_month |-> combine32BitValue(At(regs, 14), At(regs, 15)),
        generated_energy_year |-> combine32BitValue(At(regs, 16), At(regs, 17)),
        total_generated_energy |-> combine32BitValue(At(regs, 16), At(regs, 17))])

DecodeStats(regs) ==
    IF IndexError(regs, StatsIndexes) THEN Raised("IndexError")
    ELSE PyDict([
        max_pv_voltage_today |-> Scaled(At(regs, 0)),
        min_pv_voltage_today |-> Scaled(At(regs, 1)),
        max_battery_voltage_today |-> Scaled(At(regs, 2)),
        min_battery_voltage_today |-> Scaled(At(regs, 3)),
        consumed_energy_today |-> combine32BitValue(At(regs, 4), At(regs, 5)),
        consumed_energy_month |-> combine32BitValue(At(regs, 6), At(regs, 7)),
        consumed_energy_year |-> combine32BitValue(At(regs, 8), At(regs, 9)),
        total_consumed_energy |-> combine32BitValue(At(regs, 10), At(regs, 11)),
        generated_energy_today |-> combine32BitValue(At(regs, 12), At(regs, 13)),
        generated_energy_month |-> combine32BitValue(At(regs, 14), At(regs, 15)),
        generated_energy_year |-> combine32BitValue(At(regs, 16), At(regs, 17)),
        total_generated_energy |-> combine32BitValue(At(regs, 18), At(regs, 19))])

----------------------------------------------------------------------------
(* The transport (minimalmodbus.Instrument): each call is one transaction.  *)
(* Its outcome is the environment's choice:                                 *)
(*   "ok"   the call returns (reply is what it returns);                    *)
(*   "io"   it raises IOError (no response, timeout, bad frame, serial);    *)
(*   "exc"  it raises an exception that is not an IOError.                  *)

Transaction(fn, addr, arg, fc, out, reply) ==
    [fn |-> fn, addr |-> addr, arg |-> arg, fc |-> fc, out |-> out, reply |-> reply]

NoReply == <<>>
\* the function code is left to the library's default
DefaultFc == "default"

----------------------------------------------------------------------------
(* What one call of each operation does: its arguments, the transactions it *)
(* issues, in order, and what it returns.                                   *)

readRegRun(register, out, word) ==
    [args |-> <<register>>,
     tx   |-> <<Transaction("read_register", register, 2, 4, out,
                            IF out = "ok" THEN <<word>> ELSE NoReply)>>,
     ret  |-> IF out = "ok" THEN PyFloat(Scaled(word)) ELSE PyInt(-1)]

readCoilRun(address, out, bit) ==
    [args |-> <<address>>,
     tx   |-> <<Transaction("read_bit", address, 1, DefaultFc, out,
                            IF out = "ok" THEN <<bit>> ELSE NoReply)>>,
     ret  |-> IF out = "ok" THEN PyBool(bit = 1) ELSE PyBool(FALSE)]

writeCoilRun(address, value, out) ==
    [args |-> <<address, value>>,
     tx   |-> <<Transaction("write_bit", address, value, DefaultFc, out, NoReply)>>,
     ret  |-> PyBool(out = "ok")]

readDiscreteInputRun(address, out, bit) ==
    [args |-> <<address>>,
     tx   |-> <<Transaction("read_bit", address, 1, 2, out,
                            IF out = "ok" THEN <<bit>> ELSE NoReply)>>,
     ret  |-> IF out = "ok" THEN PyBool(bit = 1) ELSE PyBool(FALSE)]

\* a slip: an except clause that falls through to the final return, which
\* returns the mapping as initialised ({})
SnapshotRetFallThrough(out, decoded) ==
    IF out = "io" THEN PyNone
    ELSE IF out = "exc" THEN EmptyDict
    ELSE IF decoded.t = "raise" THEN EmptyDict
    ELSE decoded

\* a snapshot's try block around a read whose outcome is out: both except
\* clauses (IOError, Exception) return None, else the decoded mapping
SnapshotRet(out, decoded) ==
    IF out = "io" THEN PyNone
    ELSE IF out = "exc" THEN PyNone
    ELSE IF decoded.t = "raise" THEN PyNone
    ELSE decoded

readRatedDataRun(out, regs) ==
    [args |-> <<>>,
     tx   |-> <<Transaction("read_registers", RATED_BASE, 5, 4, out,
                            IF out = "ok" THEN regs ELSE NoReply)>>,
     ret  |-> SnapshotRet(out, DecodeRated(regs))]

readCurrentRun(out, regs) ==
    [args |-> <<>>,
     tx   |-> <<Transaction("read_registers", REALTIME_BASE, 20, 4, out,
                            IF out = "ok" THEN regs ELSE NoReply)>>,
     ret  |-> SnapshotRet(out, DecodeCurrent(regs))]

\* a slip: a failed read is tried once more
readStatsRunRetry(out, regs) ==
    LET t == Transaction("read_registers", STATS_BASE, 20, 4, out,
                         IF out = "ok" THEN regs ELSE NoReply)
    IN  [args |-> <<>>,
         tx   |-> IF out = "ok" THEN <<t>> ELSE <<t, t>>,
         ret  |-> SnapshotRet(out, DecodeStats(regs))]

readStatsRun(out, regs) ==
    [args |-> <<>>,
     tx   |-> <<Transaction("read_registers", STATS_BASE, 20, 4, out,
                            IF out = "ok" THEN regs ELSE NoReply)>>,
     ret  |-> SnapshotRet(out, DecodeStats(regs))]

readAllSettingsRun == [args |-> <<>>, tx |-> <<>>, ret |-> EmptyDict]

readSystemStatusRun == [args |-> <<>>, tx |-> <<>>, ret |-> EmptyDict]

\* a slip: the settings written one register at a time
setBatterySettingsRunPerRegister(settings_list, battery_capacity, battery_voltage, out) ==
    LET w == NewSettings(settings_list, battery_capacity, battery_voltage)
    IN  [args |-> <<settings_list, battery_capacity, battery_voltage>>,
         tx   |-> [i \in 1..Len(w) |->
                      Transaction("write_register", SETTING_BASE + i - 1, w[i],
                                  DefaultFc, out, NoReply)],
         ret  |-> IF out = "ok" THEN PyInt(0) ELSE PyInt(-2)]

setBatterySettingsRun(settings_list, battery_capacity, battery_voltage, out) ==
    [args |-> <<settings_list, battery_capacity, battery_voltage>>,
     tx   |-> <<Transaction("write_registers", SETTING_BASE,
                            NewSettings(settings_list, battery_capacity, battery_voltage),
                            DefaultFc, out, NoReply)>>,
     ret  |-> IF out = "ok" THEN PyInt(0) ELSE PyInt(-2)]

\* a slip: success = success and writeCoil(...), which stops at the first
\* failed write
setLoadControlRunShortCircuit(manual_on, test_mode, force_on, o1, o2, o3) ==
    LET w1 == writeCoilRun(COIL_MANUAL, manual_on, o1)
        w2 == writeCoilRun(COIL_TEST, test_mode, o2)
        w3 == writeCoilRun(COIL_FORCE, force_on, o3)
    IN  [args |-> <<manual_on, test_mode, force_on>>,
         tx   |-> IF o1 # "ok" THEN w1.tx
                  ELSE IF o2 # "ok" THEN w1.tx \o w2.tx
                  ELSE w1.tx \o w2.tx \o w3.tx,
         ret  |-> PyBool(o1 = "ok" /\ o2 = "ok" /\ o3 = "ok")]

\* success = True; success &= writeCoil(...) three times
setLoadControlRun(manual_on, test_mode, force_on, o1, o2, o3) ==
    LET w1 == writeCoilRun(COIL_MANUAL, manual_on, o1)
        w2 == writeCoilRun(COIL_TEST, test_mode, o2)
        w3 == writeCoilRun(COIL_FORCE, force_on, o3)
    IN  [args |-> <<manual_on, test_mode, force_on>>,
         tx   |-> w1.tx \o w2.tx \o w3.tx,
         ret  |-> PyBool(((TRUE /\ w1.ret.v) /\ w2.ret.v) /\ w3.ret.v)]

----------------------------------------------------------------------------
(* Bounds and input sets *)

\* operations per session
MaxOps == 3

IoOutcomes == {"ok", "io"}
BlockOutcomes == {"ok", "io", "exc"}
Bits == {0, 1}

RegisterSamples == {REALTIME_BASE, 12570}
WordSamples == {0, 1234, 65535}

BlockZero == [i \in 1..20 |-> 0]
BlockRamp == [i \in 1..20 |-> 1000 + 37 * i]
BlockHigh == [i \in 1..20 |-> 65535 - i]
\* BlockRamp with other values in the words 8..11
BlockSpare == [i \in 1..20 |-> IF i - 1 \in 8..11 THEN 4321 + i ELSE BlockRamp[i]]
FullBlocks == {BlockZero, BlockRamp, BlockHigh, BlockSpare}
\* what read_registers(addr, n, 4) returns when it returns: n words, or (from
\* a transport that does not check the reply's length) fewer
Replies(n) ==
    {SubSeq(b, 1, n) : b \in FullBlocks} \cup {SubSeq(BlockRamp, 1, n - 1), <<>>}
\* a transaction that raises returns nothing
BlockReads(n) ==
    {<<"ok", regs>> : regs \in Replies(n)} \cup {<<"io", NoReply>>, <<"exc", NoReply>>}

SettingsSamples == {BATTERY_LEAD_ACID, BATTERY_LIFEPO4}
CapacitySamples == {100, 150}
VoltageSamples == {12, 13, 24, 36, 48}

\* every call the input sets allow, operation by operation
readRegRuns ==
    {readRegRun(register, out, word) :
        register \in RegisterSamples, out \in IoOutcomes, word \in WordSamples}
readCoilRuns ==
    {readCoilRun(address, out, bit) :
        address \in {COIL_MANUAL, COIL_FORCE}, out \in IoOutcomes, bit \in Bits}
writeCoilRuns ==
    {writeCoilRun(address, value, out) :
        address \in {COIL_MANUAL, COIL_TEST}, value \in BOOLEAN, out \in IoOutcomes}
readDiscreteInputRuns ==
    {readDiscreteInputRun(address, out, bit) :
        address \in {INPUT_OVER_TEMP, INPUT_DAY_NIGHT}, out \in IoOutcomes, bit \in Bits}
readRatedDataRuns == {readRatedDataRun(r[1], r[2]) : r \in BlockReads(5)}
readCurrentRuns == {readCurrentRun(r[1], r[2]) : r \in BlockReads(20)}
readStatsRuns == {readStatsRun(r[1], r[2]) : r \in BlockReads(20)}
setBatterySettingsRuns ==
    {setBatterySettingsRun(settings_list, battery_capacity, battery_voltage, out) :
        settings_list \in SettingsSamples, battery_capacity \in CapacitySamples,
        battery_voltage \in VoltageSamples, out \in IoOutcomes}
setLoadControlRuns ==
    {setLoadControlRun(manual_on, test_mode, force_on, o1, o2, o3) :
        manual_on \in BOOLEAN, test_mode \in BOOLEAN, force_on \in BOOLEAN,
        o1 \in IoOutcomes, o2 \in IoOutcomes, o3 \in IoOutcomes}

----------------------------------------------------------------------------
(* The client's session *)

VARIABLES
    phase,      \* "new", "ready", "exited" (sys.exit in __init__), "deleted"
    connected,  \* self.connected
    portOpen,   \* whether the serial port is open
    op,         \* the last operation called ("none" before the first)
    args,       \* its arguments
    tx,         \* the transactions it issued, in order
    ret,        \* what it returned
    nOps,       \* operations called so far
    nFailed,    \* transactions that failed so far
    presets,    \* the class attributes BATTERY_LEAD_ACID, BATTERY_LIFEPO4 (lists)
    data_types, \* run_continuous_log: the data types of a cycle
    cycle,      \* run_continuous_log: cycles completed
    pos,        \* run_continuous_log: position in data_types (1-based)
    loop,       \* "idle" (no logger), "running", "stopped" (KeyboardInterrupt)
    db,         \* the points written to the database, in order
    logged      \* the last logging operation: what it read, wrote, returned

logVars == <<data_types, cycle, pos, loop, db, logged>>

vars ==
    <<phase, connected, portOpen, op, args, tx, ret, nOps, nFailed, presets,
      data_types, cycle, pos, loop, db, logged>>

\* the class attributes as the class body sets them
ClassPresets ==
    [BATTERY_LEAD_ACID |-> BATTERY_LEAD_ACID, BATTERY_LIFEPO4 |-> BATTERY_LIFEPO4]

\* no logging operation yet
NoLog == [type |-> "none"]

\* no SolarDataLogger runs
LoggerIdle ==
    /\ data_types = <<>>
    /\ cycle = 0
    /\ pos = 1
    /\ loop = "idle"
    /\ db = <<>>
    /\ logged = NoLog

Failures(t) == Cardinality({i \in 1..Len(t) : t[i].out # "ok"})

Init ==
    /\ phase = "new"
    /\ connected = FALSE
    /\ portOpen = FALSE
    /\ op = "none"
    /\ args = <<>>
    /\ tx = <<>>
    /\ ret = PyNone
    /\ nOps = 0
    /\ nFailed = 0
    /\ presets = ClassPresets
    /\ LoggerIdle

\* __init__: "ok"; "open_io": Instrument() raises IOError, the port is not
\* open; "config_io": the port is open and configuring it raises IOError
Construct(outcome) ==
    /\ phase = "new"
    /\ connected' = (outcome = "ok")
    /\ portOpen' = (outcome # "open_io")
    /\ phase' = IF outcome = "ok" THEN "ready" ELSE "exited"
    /\ UNCHANGED <<op, args, tx, ret, nOps, nFailed, presets, logVars>>

\* __del__
Destruct ==
    /\ phase \in {"ready", "exited"}
    /\ phase' = "deleted"
    /\ portOpen' = IF connected THEN FALSE ELSE portOpen
    /\ UNCHANGED <<connected, op, args, tx, ret, nOps, nFailed, presets, logVars>>

\* a method can be called on the constructed client
Ready == phase = "ready" /\ nOps < MaxOps

\* a slip: a failed transaction taken as the loss of the connection
CallDisconnectsOnFailure(name, run) ==
    /\ op' = name
    /\ args' = run.args
    /\ tx' = run.tx
    /\ ret' = run.ret
    /\ nOps' = nOps + 1
    /\ nFailed' = nFailed + Cardinality({i \in 1..Len(run.tx) : run.tx[i].out # "ok"})
    /\ connected' = (connected /\ \A i \in 1..Len(run.tx) : run.tx[i].out = "ok")
    /\ portOpen' = (portOpen /\ \A i \in 1..Len(run.tx) : run.tx[i].out = "ok")
    /\ UNCHANGED phase

\* a method call: no method assigns self.connected or touches the serial port
\* other than through its transactions
Call(name, run) ==
    /\ op' = name
    /\ args' = run.args
    /\ tx' = run.tx
    /\ ret' = run.ret
    /\ nOps' = nOps + 1
    /\ nFailed' = nFailed + Failures(run.tx)
    /\ UNCHANGED <<phase, connected, portOpen>>

\* what the call leaves alone besides the client: the presets, the logger
Aside == UNCHANGED <<presets, logVars>>

readReg == Ready /\ Aside /\ \E run \in readRegRuns : Call("readReg", run)

readCoil == Ready /\ Aside /\ \E run \in readCoilRuns : Call("readCoil", run)

writeCoil == Ready /\ Aside /\ \E run \in writeCoilRuns : Call("writeCoil", run)

readDiscreteInput ==
    Ready /\ Aside /\ \E run \in readDiscreteInputRuns : Call("readDiscreteInput", run)

readRatedData ==
    Ready /\ Aside /\ \E run \in readRatedDataRuns : Call("readRatedData", run)

readCurrent == Ready /\ Aside /\ \E run \in readCurrentRuns : Call("readCurrent", run)

readStats == Ready /\ Aside /\ \E run \in readStatsRuns : Call("readStats", run)

readAllSettings == Ready /\ Aside /\ Call("readAllSettings", readAllSettingsRun)

readSystemStatus == Ready /\ Aside /\ Call("readSystemStatus", readSystemStatusRun)

\* a slip: new_settings = settings_list, an alias, so that the assignments to
\* new_settings[idx] reach the caller's list
SettingsListAfterAliased(settings_list, new_settings) == new_settings

\* the caller's list after the call: new_settings is settings_list.copy(), the
\* assignments go to the copy
SettingsListAfter(settings_list, new_settings) == settings_list

\* the runs of setBatterySettings on the list settings_list
setBatterySettingsRunsOn(settings_list) ==
    IF settings_list \in SettingsSamples
    THEN {run \in setBatterySettingsRuns : run.args[1] = settings_list}
    ELSE {setBatterySettingsRun(settings_list, battery_capacity, battery_voltage, out) :
             battery_capacity \in CapacitySamples, battery_voltage \in VoltageSamples,
             out \in IoOutcomes}

\* called with one of the class's preset lists, as it then is
setBatterySettings ==
    /\ Ready
    /\ \E name \in DOMAIN presets :
          \E run \in setBatterySettingsRunsOn(presets[name]) :
             /\ Call("setBatterySettings", run)
             /\ presets' =
                   [presets EXCEPT ![name] = SettingsListAfter(presets[name], run.tx[1].arg)]
    /\ UNCHANGED logVars

setLoadControl ==
    Ready /\ Aside /\ \E run \in setLoadControlRuns : Call("setLoadControl", run)

Next ==
    \/ \E outcome \in {"ok", "open_io", "config_io"} : Construct(outcome)
    \/ Destruct
    \/ readReg
    \/ readCoil
    \/ writeCoil
    \/ readDiscreteInput
    \/ readRatedData
    \/ readCurrent
    \/ readStats
    \/ readAllSettings
    \/ readSystemStatus
    \/ setBatterySettings
    \/ setLoadControl

Spec == Init /\ [][Next]_vars

----------------------------------------------------------------------------
(* The pure functions applied once, on a constructed client *)

CombineWords == {0, 1, 99, 100, 101, 255, 256, 32767, 32768, 65535}
StatusWords == 0..65535

InitPure ==
    /\ phase = "ready"
    /\ connected = TRUE
    /\ portOpen = TRUE
    /\ op = "none"
    /\ args = <<>>
    /\ tx = <<>>
    /\ ret = PyNone
    /\ nOps = 0
    /\ nFailed = 0
    /\ presets = ClassPresets
    /\ LoggerIdle

PureCall(name, a, r) ==
    /\ op' = name
    /\ args' = a
    /\ ret' = r
    /\ UNCHANGED <<phase, connected, portOpen, tx, nOps, nFailed, presets, logVars>>

CallCombine32BitValue ==
    /\ op = "none"
    /\ \E low_reg \in CombineWords, high_reg \in CombineWords :
          PureCall("combine32BitValue", <<low_reg, high_reg>>,
                   PyFloat(combine32BitValue(low_reg, high_reg)))

CallDecodeBatteryStatus ==
    /\ op = "none"
    /\ \E status_value \in StatusWords :
          PureCall("decodeBatteryStatus", <<status_value>>,
                   decodeBatteryStatus(status_value))

CallDecodeChargingStatus ==
    /\ op = "none"
    /\ \E status_value \in StatusWords :
          PureCall("decodeChargingStatus", <<status_value>>,
                   decodeChargingStatus(status_value))

NextPure ==
    \/ CallCombine32BitValue
    \/ CallDecodeBatteryStatus
    \/ CallDecodeChargingStatus

SpecPure == InitPure /\ [][NextPure]_vars

----------------------------------------------------------------------------
(* The logger (SolarDataLogger) running run_continuous_log on a constructed *)
(* client and a connected database.  A point is [measurement, fields]; its  *)
(* timestamp is left out.                                                   *)

\* cycles of run_continuous_log after the first
MaxCycles == 1

\* the data_types lists run_continuous_log is started with: the default and
\* one with the other types and a name run_single_log does not know
DataTypeLists ==
    {<<"realtime", "statistics">>, <<"rated", "settings", "status", "bogus">>}

\* what write_points does: "ok" it returns, "exc" it raises
WriteOutcomes == {"ok", "exc"}

\* the blocks the device answers the logger's reads with
LoggerBlocks == {BlockRamp, BlockHigh}
\* the runs of a snapshot the logger sees: those blocks, and every failure
LoggerRuns(runs) ==
    {run \in runs :
        run.tx[1].out = "ok" /\ Len(run.tx[1].reply) = 20 => run.tx[1].reply \in LoggerBlocks}

\* not x, for x None or a dict
Falsy(x) == x = PyNone \/ (x.t = "dict" /\ x.v = <<>>)

\* isinstance(value, (int, float, bool)) for the values a snapshot holds
IsNumber(value) == "sig" \in DOMAIN value

\* flatten_nested_dict on a mapping without nested mappings: the entries
\* whose values are numbers
flatten_nested_dict(data) ==
    [key \in {k \in DOMAIN data : IsNumber(data[k])} |-> data[key]]

\* log_system_status: booleans become 1 and 0, other values are kept
numeric_status(status_data) ==
    [key \in DOMAIN status_data |->
        IF status_data[key] = TRUE THEN 1
        ELSE IF status_data[key] = FALSE THEN 0 ELSE status_data[key]]

create_measurement_point(measurement_name, fields) ==
    [measurement |-> measurement_name, fields |-> fields]

NoPoint == [measurement |-> "none", fields |-> <<>>]

\* a slip: the snapshot is not tested before the point is made; a failed
\* read is logged as a point without fields
LogOutcomeUnchecked(type, measurement_name, snapshot, wout) ==
    LET fields == IF snapshot = PyNone THEN <<>> ELSE snapshot.v
    IN  [type |-> type, snapshot |-> snapshot, attempted |-> TRUE,
         point |-> create_measurement_point(measurement_name, fields),
         wrote |-> wout = "ok", result |-> wout = "ok"]

\* the body of a log_* method once the snapshot is read: "if not data:
\* return False", else the point is made and written; an exception from
\* write_points is caught and False returned
LogOutcome(type, measurement_name, snapshot, wout) ==
    IF Falsy(snapshot)
    THEN [type |-> type, snapshot |-> snapshot, attempted |-> FALSE,
          point |-> NoPoint, wrote |-> FALSE, result |-> FALSE]
    ELSE LET fields == IF type = "realtime" THEN flatten_nested_dict(snapshot.v)
                       ELSE IF type = "status" THEN numeric_status(snapshot.v)
                       ELSE snapshot.v
         IN  [type |-> type, snapshot |-> snapshot, attempted |-> TRUE,
              point |-> create_measurement_point(measurement_name, fields),
              wrote |-> wout = "ok", result |-> wout = "ok"]

InitLog ==
    /\ phase = "ready"
    /\ connected = TRUE
    /\ portOpen = TRUE
    /\ op = "none"
    /\ args = <<>>
    /\ tx = <<>>
    /\ ret = PyNone
    /\ nOps = 0
    /\ nFailed = 0
    /\ presets = ClassPresets
    /\ data_types \in DataTypeLists
    /\ cycle = 0
    /\ pos = 1
    /\ loop = "running"
    /\ db = <<>>
    /\ logged = NoLog

\* the loop body is at a data type of this name
AtType(type) ==
    /\ loop = "running"
    /\ pos <= Len(data_types)
    /\ data_types[pos] = type

\* run_single_log(type) calling a log_* method: the snapshot is read (run),
\* then the point written or not; the loop moves on to the next data type
LogStep(type, name, run, measurement_name, wout) ==
    LET outcome == LogOutcome(type, measurement_name, run.ret, wout)
    IN  /\ Call(name, run)
        /\ logged' = outcome
        /\ db' = IF outcome.wrote THEN Append(db, outcome.point) ELSE db
        /\ pos' = pos + 1
        /\ UNCHANGED <<presets, data_types, cycle, loop>>

log_realtime_data ==
    /\ AtType("realtime")
    /\ \E run \in LoggerRuns(readCurrentRuns), wout \in WriteOutcomes :
          LogStep("realtime", "readCurrent", run, "solar_realtime", wout)

log_statistics ==
    /\ AtType("statistics")
    /\ \E run \in LoggerRuns(readStatsRuns), wout \in WriteOutcomes :
          LogStep("statistics", "readStats", run, "solar_statistics", wout)

log_rated_data ==
    /\ AtType("rated")
    /\ \E run \in readRatedDataRuns, wout \in WriteOutcomes :
          LogStep("rated", "readRatedData", run, "solar_rated", wout)

log_settings ==
    /\ AtType("settings")
    /\ \E wout \in WriteOutcomes :
          LogStep("settings", "readAllSettings", readAllSettingsRun, "solar_settings", wout)

log_system_status ==
    /\ AtType("status")
    /\ \E wout \in WriteOutcomes :
          LogStep("status", "readSystemStatus", readSystemStatusRun,
                  "solar_system_status", wout)

KnownTypes == {"realtime", "statistics", "rated", "settings", "status", "all"}

\* run_single_log with a data type it does not know: False, nothing read
run_single_log_unknown ==
    /\ loop = "running"
    /\ pos <= Len(data_types)
    /\ data_types[pos] \notin KnownTypes
    /\ logged' = [type |-> "unknown", snapshot |-> PyNone, attempted |-> FALSE,
                  point |-> NoPoint, wrote |-> FALSE, result |-> FALSE]
    /\ pos' = pos + 1
    /\ UNCHANGED <<phase, connected, portOpen, op, args, tx, ret, nOps, nFailed,
                   presets, data_types, cycle, loop, db>>

\* the end of a cycle: time.sleep(interval), then the next cycle
NextCycle ==
    /\ loop = "running"
    /\ pos = Len(data_types) + 1
    /\ cycle < MaxCycles
    /\ cycle' = cycle + 1
    /\ pos' = 1
    /\ UNCHANGED <<phase, connected, portOpen, op, args, tx, ret, nOps, nFailed,
                   presets, data_types, loop, db, logged>>

\* KeyboardInterrupt ends the loop
Interrupt ==
    /\ loop = "running"
    /\ loop' = "stopped"
    /\ UNCHANGED <<phase, connected, portOpen, op, args, tx, ret, nOps, nFailed,
                   presets, data_types, cycle, pos, db, logged>>

NextLog ==
    \/ log_realtime_data
    \/ log_statistics
    \/ log_rated_data
    \/ log_settings
    \/ log_system_status
    \/ run_single_log_unknown
    \/ NextCycle
    \/ Interrupt

SpecLog == InitLog /\ [][NextLog]_vars

----------------------------------------------------------------------------
(* Properties *)

SnapshotOps == {"readRatedData", "readCurrent", "readStats"}
TransportOps ==
    SnapshotOps \cup {"readReg", "readCoil", "writeCoil", "readDiscreteInput",
                      "setBatterySettings", "setLoadControl"}

RatedKeys ==
    {"pv_rated_voltage", "pv_rated_current", "pv_rated_power", "battery_rated_voltage"}
CurrentKeys ==
    {"PVvolt", "PVamps", "PVwatt", "BAvolt", "BAamps", "BAwatt", "DCvolt", "DCamps",
     "DCwatt", "BAtemp", "CTtemp", "power_components_temp", "BAperc"}
StatsKeys ==
    {"max_pv_voltage_today", "min_pv_voltage_today", "max_battery_voltage_today",
     "min_battery_voltage_today", "consumed_energy_today", "consumed_energy_month",
     "consumed_energy_year", "total_consumed_energy", "generated_energy_today",
     "generated_energy_month", "generated_energy_year", "total_generated_energy"}
KeysOf(o) ==
    IF o = "readRatedData" THEN RatedKeys
    ELSE IF o = "readCurrent" THEN CurrentKeys
    ELSE StatsKeys

\* C1: whatever the outcome of the block read (it returns a full block, a
\* short one, raises IOError or raises anything else), a snapshot returns None
\* or a mapping with its complete key set (4, 13, 12 keys), never fewer keys.
C1_FailClosed ==
    op \in SnapshotOps =>
        \/ ret = PyNone
        \/ /\ ret.t = "dict"
           /\ DOMAIN ret.v = KeysOf(op)
           /\ Cardinality(DOMAIN ret.v) =
                 (IF op = "readRatedData" THEN 4 ELSE IF op = "readCurrent" THEN 13 ELSE 12)

\* readCurrent got a block one word short: decoding raised, None came back
C1_Witness ==
    /\ op = "readCurrent"
    /\ tx[1].out = "ok"
    /\ Len(tx[1].reply) = 19
    /\ ret = PyNone

\* C2: after any sequence of operations with any of their transactions
\* failing, the constructed client is still connected with its port open,
\* and every transport operation called has issued its transaction.
C2_HandleSurvives ==
    /\ phase = "ready" => (connected /\ portOpen)
    /\ op \in TransportOps => Len(tx) >= 1

\* a snapshot succeeds after earlier transactions have failed
C2_Witness ==
    /\ phase = "ready"
    /\ connected
    /\ portOpen
    /\ nFailed - Failures(tx) >= 1
    /\ op = "readCurrent"
    /\ tx[1].out = "ok"
    /\ ret.t = "dict"

\* C3: each snapshot call issues exactly one transaction, a function code 4
\* block read (5 words at 0x3000, 20 at 0x3100, 20 at 0x3300), whether it
\* succeeds or fails: no retry, no per-register fallback.
C3_OneBlockRead ==
    op \in SnapshotOps =>
        /\ Len(tx) = 1
        /\ tx[1].fn = "read_registers"
        /\ tx[1].fc = 4
        /\ tx[1].addr =
              (IF op = "readRatedData" THEN 12288
               ELSE IF op = "readCurrent" THEN 12544 ELSE 13056)
        /\ tx[1].arg = (IF op = "readRatedData" THEN 5 ELSE 20)

\* readStats failed on its single read
C3_Witness ==
    /\ op = "readStats"
    /\ Len(tx) = 1
    /\ tx[1].out = "io"
    /\ ret = PyNone

\* C4: setLoadControl writes coils 0x0002, 0x0005, 0x0006 in that order with
\* manual_on, test_mode, force_on, all three whatever the earlier outcomes,
\* and returns true exactly when all three writes succeeded.
C4_AllCoilsWritten ==
    op = "setLoadControl" =>
        /\ Len(tx) = 3
        /\ \A i \in 1..3 : tx[i].fn = "write_bit" /\ tx[i].arg = args[i]
        /\ <<tx[1].addr, tx[2].addr, tx[3].addr>> = <<2, 5, 6>>
        /\ ret = PyBool(\A i \in 1..3 : tx[i].out = "ok")

\* the first write failed, the other two were made and succeeded
C4_Witness ==
    /\ op = "setLoadControl"
    /\ Len(tx) = 3
    /\ tx[1].out = "io"
    /\ tx[2].out = "ok"
    /\ tx[3].out = "ok"
    /\ ret = PyBool(FALSE)

\* C5: the block written by setBatterySettings(b, c, v) is w with w[0] = b[0],
\* w[2] = b[2], w[1] = c if c is not 100 and b[1] otherwise, and for i in
\* 3..14 w[i] = b[i]*v/12 truncated if v > 12 and b[i] otherwise.
C5_ScalingRule ==
    op = "setBatterySettings" =>
        LET b == args[1]
            c == args[2]
            v == args[3]
            w == tx[1].arg
        IN  /\ Len(w) = 15
            /\ At(w, 0) = At(b, 0)
            /\ At(w, 2) = At(b, 2)
            /\ At(w, 1) = (IF c # 100 THEN c ELSE At(b, 1))
            /\ \A i \in 3..14 :
                  At(w, i) = (IF v > 12 THEN (At(b, i) * v) \div 12 ELSE At(b, i))

\* C6: setBatterySettings issues exactly one write_registers transaction at
\* 0x9000 carrying all 15 words; it returns 0 when the write succeeds and -2
\* when it fails, and a failed write is not followed by another.
C6_OneBlockWrite ==
    op = "setBatterySettings" =>
        /\ Len(tx) = 1
        /\ tx[1].fn = "write_registers"
        /\ tx[1].addr = 36864
        /\ Len(tx[1].arg) = 15
        /\ \A i \in 1..15 : tx[1].arg[i] \in 0..65535
        /\ ret = (IF tx[1].out = "ok" THEN PyInt(0) ELSE PyInt(-2))

\* the single write failed and -2 came back
C6_Witness ==
    /\ op = "setBatterySettings"
    /\ Len(tx) = 1
    /\ tx[1].out = "io"
    /\ ret = PyInt(-2)

\* the 16 bits of a register word
WordBits(w) == [i \in 1..16 |-> (w \div Pow2(16 - i)) % 2]

RECURSIVE StripZeros(_)
StripZeros(s) ==
    IF s = <<>> \/ s[1] = 1 THEN s ELSE StripZeros(Tail(s))

\* the integer nearest to 100 * f for a double f >= 0, as bits, in exact
\* arithmetic
Hundredths(f) ==
    IF f.sig = <<>> THEN <<>>
    ELSE LET p == MulAdd(f.sig, 100, 0)
             k == (MantBits - 1) - f.exp
         IN  IF k <= 0 THEN p \o [i \in 1..(-k) |-> 0]
             ELSE IF k > Len(p) THEN <<>>
             ELSE IF p[Len(p) - k + 1] = 1 THEN BitsInc(SubSeq(p, 1, Len(p) - k))
             ELSE SubSeq(p, 1, Len(p) - k)

\* the doubles 655.36 (0x40847AE147AE147B) and 1.0 (0x3FF0000000000000)
Double655_36 ==
    [neg |-> FALSE, exp |-> 9,
     sig |-> <<1, 0, 1, 0, 0, 0, 1, 1, 1, 1, 0, 1, 0, 1, 1, 1, 0, 0, 0, 0,
              1, 0, 1, 0, 0, 0, 1, 1, 1, 1, 0, 1, 0, 1, 1, 1, 0, 0, 0, 0,
              1, 0, 1, 0, 0, 0, 1, 1, 1, 1, 0, 1, 1>>]
Double1_0 ==
    [neg |-> FALSE, exp |-> 0,
     sig |-> <<1, 0, 0, 0, 0, 0, 0, 0, 0, 0, 0, 0, 0, 0, 0, 0, 0, 0, 0, 0,
              0, 0, 0, 0, 0, 0, 0, 0, 0, 0, 0, 0, 0, 0, 0, 0, 0, 0, 0, 0,
              0, 0, 0, 0, 0, 0, 0, 0, 0, 0, 0, 0, 0>>]

\* the results of combine32BitValue over the sampled words
CombineTable ==
    [p \in CombineWords \X CombineWords |-> combine32BitValue(p[1], p[2])]

\* C7: for unsigned 16-bit low and high, combine32 is the double nearest to
\* (high*65536 + low)/100 (in hundredths exactly high*65536 + low), it is never
\* negative, combine32(0,1) = 655.36, combine32(100,0) = 1.0, and different
\* (low, high) pairs give different results.
C7_Combine32 ==
    op = "combine32BitValue" =>
        LET low  == args[1]
            high == args[2]
            f    == ret.v
        IN  /\ ret.t = "float"
            /\ ~f.neg
            /\ Hundredths(f) = StripZeros(WordBits(high) \o WordBits(low))
            /\ (low = 0 /\ high = 1) => f = Double655_36
            /\ (low = 100 /\ high = 0) => f = Double1_0
            /\ \A p \in DOMAIN CombineTable :
                  CombineTable[p] = f => p = <<low, high>>

\* combine32(0, 1) was computed and is 655.36
C7_Witness ==
    /\ op = "combine32BitValue"
    /\ args = <<0, 1>>
    /\ ret = PyFloat(Double655_36)

\* bit k of w (mask 2^k) is set
BitSet(w, mask) == (w \div mask) % 2 = 1

\* the charging-status word's layout table
ChargingTable(w) ==
    [input_voltage_status |->
        <<"Normal", "No power", "Higher volt input", "Input volt error">>[((w \div 16384) % 4) + 1],
     charging_mosfet_short |-> BitSet(w, 8192),
     charging_anti_reverse_short |-> BitSet(w, 4096),
     anti_reverse_short |-> BitSet(w, 2048),
     input_over_current |-> BitSet(w, 1024),
     load_over_current |-> BitSet(w, 512),
     load_short |-> BitSet(w, 256),
     load_mosfet_short |-> BitSet(w, 128),
     pv_input_short |-> BitSet(w, 16),
     charging_status |->
        <<"No charging", "Float", "Boost", "Equalization">>[((w \div 4) % 4) + 1],
     fault |-> BitSet(w, 2),
     running |-> BitSet(w, 1)]

\* w with bits 0x0020 and 0x0040 cleared
WithoutSpareBits(w) ==
    w - (IF BitSet(w, 32) THEN 32 ELSE 0) - (IF BitSet(w, 64) THEN 64 ELSE 0)

\* C8: for every 16-bit word decodeChargingStatus returns the fields of the
\* bit layout table (two enums from bits 14-15 and 2-3, ten single-bit
\* flags); bits 0x0020 and 0x0040 change no field; decodeChargingStatus(1) is
\* running only, No charging, Normal.
C8_ChargingLayout ==
    op = "decodeChargingStatus" =>
        LET w == args[1]
        IN  /\ ret = PyDict(ChargingTable(w))
            /\ ret = decodeChargingStatus(WithoutSpareBits(w))
            /\ w = 1 =>
                  ret.v = [input_voltage_status |-> "Normal",
                           charging_mosfet_short |-> FALSE,
                           charging_anti_reverse_short |-> FALSE,
                           anti_reverse_short |-> FALSE,
                           input_over_current |-> FALSE,
                           load_over_current |-> FALSE,
                           load_short |-> FALSE,
                           load_mosfet_short |-> FALSE,
                           pv_input_short |-> FALSE,
                           charging_status |-> "No charging",
                           fault |-> FALSE,
                           running |-> TRUE]

\* decodeChargingStatus(0x0001) was computed: running, nothing else
C8_Witness ==
    /\ op = "decodeChargingStatus"
    /\ args = <<1>>
    /\ ret.t = "dict"
    /\ ret.v.running
    /\ ~ret.v.fault
    /\ ret.v.charging_status = "No charging"
    /\ ret.v.input_voltage_status = "Normal"

\* C9 as stated: decodeChargingStatus(0x200C) yields chargingStatus = Boost and
\* chargingMosfetShort = true, with fault = false and running = false.
C9_Original ==
    (op = "decodeChargingStatus" /\ args = <<8204>>) =>
        /\ ret.t = "dict"
        /\ ret.v.charging_status = "Boost"
        /\ ret.v.charging_mosfet_short
        /\ ~ret.v.fault
        /\ ~ret.v.running

\* C9 (amended): decodeChargingStatus(0x200C) yields chargingStatus =
\* Equalization (bits 2-3 of 0x200C are 0b11) and chargingMosfetShort = true,
\* with fault = false and running = false; the Boost pattern (bits 2-3 = 0b10)
\* with the chargingMosfetShort bit is 0x2008, which yields Boost with the
\* same flags.
C9_Amended ==
    /\ (op = "decodeChargingStatus" /\ args = <<8204>>) =>
          /\ ret.t = "dict"
          /\ ret.v.charging_status = "Equalization"
          /\ ret.v.charging_mosfet_short
          /\ ~ret.v.fault
          /\ ~ret.v.running
    /\ (op = "decodeChargingStatus" /\ args = <<8200>>) =>
          /\ ret.t = "dict"
          /\ ret.v.charging_status = "Boost"
          /\ ret.v.charging_mosfet_short
          /\ ~ret.v.fault
          /\ ~ret.v.running

\* decodeChargingStatus(0x200C) was computed
C9_Witness ==
    /\ op = "decodeChargingStatus"
    /\ args = <<8204>>
    /\ ret.t = "dict"
    /\ ret.v.charging_status = "Equalization"
    /\ ret.v.charging_mosfet_short

\* C10: for every 16-bit word whose low 4 bits are in 0..4,
\* decodeBatteryStatus gives voltage_status from the low 4 bits,
\* temperature_status from bits 4-7 modulo 3, and the two flags from bits
\* 0x0100 and 0x8000; decodeBatteryStatus(0) is Normal, Normal, false, false.
C10_BatteryLayout ==
    (op = "decodeBatteryStatus" /\ args[1] % 16 \in 0..4) =>
        LET w == args[1]
        IN  /\ ret = PyDict(
                  [voltage_status |->
                      <<"Normal", "Overvolt", "Under Volt", "Low Volt Disconnect",
                        "Fault">>[(w % 16) + 1],
                   temperature_status |->
                      <<"Normal", "Over Temp", "Low Temp">>[((((w \div 16) % 16)) % 3) + 1],
                   internal_resistance_abnormal |-> BitSet(w, 256),
                   wrong_voltage_identification |-> BitSet(w, 32768)])
            /\ w = 0 =>
                  ret.v = [voltage_status |-> "Normal",
                           temperature_status |-> "Normal",
                           internal_resistance_abnormal |-> FALSE,
                           wrong_voltage_identification |-> FALSE]

\* decodeBatteryStatus(0x8124) was computed: Fault, Low Temp, both flags
C10_Witness ==
    /\ op = "decodeBatteryStatus"
    /\ args = <<33060>>
    /\ ret = PyDict([voltage_status |-> "Fault",
                     temperature_status |-> "Low Temp",
                     internal_resistance_abnormal |-> TRUE,
                     wrong_voltage_identification |-> TRUE])


----------------------------------------------------------------------------
(* Unsupported banks, release of the port, error outcomes *)

\* C11: readAllSettings and readSystemStatus return an outcome of their own
\* for a bank the device does not support: neither the failure outcome (None)
\* nor an empty mapping, which a caller takes for "no data available".
C11_UnsupportedDistinct ==
    op \in {"readAllSettings", "readSystemStatus"} =>
        /\ ret # PyNone
        /\ ret # EmptyDict

\* C14: once the handle's lifetime has ended, the serial port is closed,
\* whether the construction that opened it completed or failed after the
\* open: the port is never left open on a client that reports Disconnected
\* with nothing left to close it.
C14_PortReleased == phase = "deleted" => ~portOpen

\* C15: when the transaction of readCoil or readDiscreteInput fails, what the
\* call returns differs from everything a successful read can return, the
\* boolean false included.
C15_ReadErrorDistinct ==
    (op \in {"readCoil", "readDiscreteInput"} /\ tx[1].out # "ok") =>
        \A run \in readCoilRuns \cup readDiscreteInputRuns :
            run.tx[1].out = "ok" => run.ret # ret

\* C16: when the block read of a snapshot returns without a transport error
\* but with fewer words than asked for, what the snapshot returns differs
\* from what it returns when the transport fails.
C16_ShortBlockSurfaced ==
    (op \in SnapshotOps /\ tx[1].out = "ok" /\ Len(tx[1].reply) < tx[1].arg) =>
        \A run \in readRatedDataRuns \cup readCurrentRuns \cup readStatsRuns :
            run.tx[1].out # "ok" => run.ret # ret

\* C17: for every 16-bit word, decodeBatteryStatus returns a record of 4
\* fields and decodeChargingStatus a record of 12 fields; neither raises.
C17_DecodersTotal ==
    /\ op = "decodeBatteryStatus" =>
          (ret.t = "dict" /\ Cardinality(DOMAIN ret.v) = 4)
    /\ op = "decodeChargingStatus" =>
          (ret.t = "dict" /\ Cardinality(DOMAIN ret.v) = 12)


----------------------------------------------------------------------------
(* Decode layouts *)

\* the word r[i] of a block r (a sequence), i counted from 0
Word(r, i) == r[i + 1]

\* C12: from a 20-word block r read at 0x3100, readCurrent returns exactly
\* the 13 keys of the realtime snapshot: PV r[0]/100, r[1]/100,
\* combine32(r[2], r[3]); battery r[4]/100, r[5]/100, combine32(r[6], r[7]);
\* load r[12]/100, r[13]/100, combine32(r[14], r[15]); temperatures
\* r[16..18]/100; state of charge r[19]/100; the lower address is the low
\* word of each pair; the words r[8..11] affect no field.
C12_CurrentLayout ==
    (op = "readCurrent" /\ tx[1].out = "ok" /\ Len(tx[1].reply) = 20) =>
        LET r == tx[1].reply
        IN  /\ tx[1].addr = 12544
            /\ ret.t = "dict"
            /\ DOMAIN ret.v = CurrentKeys
            /\ Cardinality(DOMAIN ret.v) = 13
            /\ ret.v.PVvolt = FloatDiv(Big(Word(r, 0)), 100)
            /\ ret.v.PVamps = FloatDiv(Big(Word(r, 1)), 100)
            /\ ret.v.PVwatt = combine32BitValue(Word(r, 2), Word(r, 3))
            /\ ret.v.BAvolt = FloatDiv(Big(Word(r, 4)), 100)
            /\ ret.v.BAamps = FloatDiv(Big(Word(r, 5)), 100)
            /\ ret.v.BAwatt = combine32BitValue(Word(r, 6), Word(r, 7))
            /\ ret.v.DCvolt = FloatDiv(Big(Word(r, 12)), 100)
            /\ ret.v.DCamps = FloatDiv(Big(Word(r, 13)), 100)
            /\ ret.v.DCwatt = combine32BitValue(Word(r, 14), Word(r, 15))
            /\ ret.v.BAtemp = FloatDiv(Big(Word(r, 16)), 100)
            /\ ret.v.CTtemp = FloatDiv(Big(Word(r, 17)), 100)
            /\ ret.v.power_components_temp = FloatDiv(Big(Word(r, 18)), 100)
            /\ ret.v.BAperc = FloatDiv(Big(Word(r, 19)), 100)
            /\ \A run \in readCurrentRuns :
                  (/\ run.tx[1].out = "ok"
                   /\ Len(run.tx[1].reply) = 20
                   /\ \A i \in (0..19) \ (8..11) : Word(run.tx[1].reply, i) = Word(r, i))
                  => run.ret = ret

\* readCurrent decoded the block whose words 8..11 differ from the ramp's
C12_Witness ==
    /\ op = "readCurrent"
    /\ tx[1].out = "ok"
    /\ tx[1].reply = BlockSpare
    /\ ret.t = "dict"
    /\ ret.v.DCwatt # ret.v.PVwatt

\* the order of the eight totals of the statistics snapshot
StatsTotals ==
    <<"consumed_energy_today", "consumed_energy_month", "consumed_energy_year",
      "total_consumed_energy", "generated_energy_today", "generated_energy_month",
      "generated_energy_year", "total_generated_energy">>
StatsVoltages ==
    <<"max_pv_voltage_today", "min_pv_voltage_today", "max_battery_voltage_today",
      "min_battery_voltage_today">>

\* a block with the word i replaced by another value
Perturbed(r, i) == [r EXCEPT ![i + 1] = (r[i + 1] + 1) % 65536]

\* C13: from a 20-word block r read at 0x3300, readStats returns exactly 12
\* fields: the four min/max voltages r[0..3]/100, then the eight totals, the
\* k-th being combine32(r[4+2k], r[5+2k]), consumed today/month/year/total
\* then generated today/month/year/total; each of the 20 words is used by
\* exactly one field (changing it changes that field and no other).
C13_StatsLayout ==
    (op = "readStats" /\ tx[1].out = "ok" /\ Len(tx[1].reply) = 20) =>
        LET r == tx[1].reply
        IN  /\ tx[1].addr = 13056
            /\ ret.t = "dict"
            /\ DOMAIN ret.v = StatsKeys
            /\ Cardinality(DOMAIN ret.v) = 12
            /\ \A j \in 0..3 :
                  ret.v[StatsVoltages[j + 1]] = FloatDiv(Big(Word(r, j)), 100)
            /\ \A k \in 0..7 :
                  ret.v[StatsTotals[k + 1]] =
                     combine32BitValue(Word(r, 4 + 2 * k), Word(r, 5 + 2 * k))
            /\ \A i \in 0..19 :
                  LET other == readStatsRun("ok", Perturbed(r, i)).ret
                  IN  Cardinality({f \in StatsKeys : other.v[f] # ret.v[f]}) = 1

\* readStats decoded a full block with distinct words
C13_Witness ==
    /\ op = "readStats"
    /\ tx[1].out = "ok"
    /\ tx[1].reply = BlockHigh
    /\ ret.t = "dict"
    /\ ret.v.total_generated_energy # ret.v.generated_energy_year


----------------------------------------------------------------------------
(* The presets *)

\* C18: setBatterySettings leaves the list it was given as it was, whether
\* the write succeeds or fails: the presets BATTERY_LEAD_ACID and
\* BATTERY_LIFEPO4 keep their initial values through any sequence of calls,
\* the words a call writes are a function of that call's arguments alone,
\* and a call with the arguments of the call before it writes the same 15
\* words.
C18_PresetsUntouched ==
    /\ [](presets.BATTERY_LEAD_ACID =
             <<0, 300, 300, 1620, 1500, 1500, 1460, 1440, 1380, 1630, 1260, 1220,
               1200, 1110, 1060>>)
    /\ [](presets.BATTERY_LIFEPO4 =
             <<0, 300, 300, 1500, 1460, 1420, 1400, 1380, 1380, 1320, 1240, 1200,
               1160, 1080, 1040>>)
    /\ [](op = "setBatterySettings" =>
             (/\ Len(tx[1].arg) = 15
              /\ tx[1].arg = NewSettings(args[1], args[2], args[3])
              /\ \A run \in setBatterySettingsRuns :
                    run.args = args => run.tx[1].arg = tx[1].arg))
    /\ [][(op = "setBatterySettings" /\ op' = "setBatterySettings" /\ args' = args)
             => tx'[1].arg = tx[1].arg]_vars

\* a third call, scaling to 24 V, after a failed transaction earlier in the
\* session, writes 3240 (twice 1620) and leaves the preset at 1620
C18_Witness ==
    /\ op = "setBatterySettings"
    /\ nOps = 3
    /\ nFailed - Failures(tx) >= 1
    /\ args[3] = 24
    /\ tx[1].arg[4] = 3240
    /\ presets.BATTERY_LEAD_ACID[4] = 1620


----------------------------------------------------------------------------
(* The decode offsets against the register map *)

\* the named registers each field of a snapshot stands for: one register, or
\* the low and the high register of a pair
RatedSource ==
    [pv_rated_voltage |-> <<"PV_rated_voltage">>,
     pv_rated_current |-> <<"PV_rated_current">>,
     pv_rated_power |-> <<"PV_rated_power_L", "PV_rated_power_H">>,
     battery_rated_voltage |-> <<"battery_rated_voltage">>]
CurrentSource ==
    [PVvolt |-> <<"PV_voltage">>,
     PVamps |-> <<"PV_current">>,
     PVwatt |-> <<"PV_power_L", "PV_power_H">>,
     BAvolt |-> <<"battery_voltage">>,
     BAamps |-> <<"battery_current">>,
     BAwatt |-> <<"battery_power_L", "battery_power_H">>,
     DCvolt |-> <<"load_voltage">>,
     DCamps |-> <<"load_current">>,
     DCwatt |-> <<"load_power_L", "load_power_H">>,
     BAtemp |-> <<"battery_temperature">>,
     CTtemp |-> <<"case_temperature">>,
     power_components_temp |-> <<"power_components_temperature">>,
     BAperc |-> <<"battery_SOC">>]
StatsSource ==
    [max_pv_voltage_today |-> <<"max_PV_voltage_today">>,
     min_pv_voltage_today |-> <<"min_PV_voltage_today">>,
     max_battery_voltage_today |-> <<"max_battery_voltage_today">>,
     min_battery_voltage_today |-> <<"min_battery_voltage_today">>,
     consumed_energy_today |-> <<"consumed_energy_today_L", "consumed_energy_today_H">>,
     consumed_energy_month |-> <<"consumed_energy_month_L", "consumed_energy_month_H">>,
     consumed_energy_year |-> <<"consumed_energy_year_L", "consumed_energy_year_H">>,
     total_consumed_energy |-> <<"total_consumed_energy_L", "total_consumed_energy_H">>,
     generated_energy_today |-> <<"generated_energy_today_L", "generated_energy_today_H">>,
     generated_energy_month |-> <<"generated_energy_month_L", "generated_energy_month_H">>,
     generated_energy_year |-> <<"generated_energy_year_L", "generated_energy_year_H">>,
     total_generated_energy |-> <<"total_generated_energy_L", "total_generated_energy_H">>]

SourceOf(o) ==
    IF o = "readRatedData" THEN RatedSource
    ELSE IF o = "readCurrent" THEN CurrentSource
    ELSE StatsSource
MapOf(o) ==
    IF o = "readRatedData" THEN RATED_REGISTERS
    ELSE IF o = "readCurrent" THEN REALTIME_REGISTERS
    ELSE STATS_REGISTERS

\* the field f of the snapshot o, read at base with count words in block r,
\* is decoded from the words at the map's addresses of its registers
FieldAgrees(o, f, value, base, count, r) ==
    LET names == SourceOf(o)[f]
        off == [j \in 1..Len(names) |-> MapOf(o)[names[j]] - base]
    IN  /\ \A j \in 1..Len(names) : off[j] \in 0..(count - 1)
        /\ value = (IF Len(names) = 1 THEN FloatDiv(Big(Word(r, off[1])), 100)
                    ELSE combine32BitValue(Word(r, off[1]), Word(r, off[2])))

\* C19: every field of a snapshot is decoded from the block word(s) at offset
\* (address of its named register in the register map - base address of the
\* block), and that offset lies inside the block read; in particular BAperc
\* comes from the word at the address of battery_SOC (0x311A).
C19_OffsetsAgree ==
    (op \in SnapshotOps /\ tx[1].out = "ok" /\ Len(tx[1].reply) = tx[1].arg) =>
        /\ ret.t = "dict"
        /\ \A f \in DOMAIN ret.v :
              FieldAgrees(op, f, ret.v[f], tx[1].addr, tx[1].arg, tx[1].reply)


----------------------------------------------------------------------------
(* The logger *)

SnapshotLogs == {"realtime", "statistics", "rated"}

\* the keys of the snapshot a measurement holds
MeasurementKeys(measurement_name) ==
    IF measurement_name = "solar_realtime" THEN CurrentKeys
    ELSE IF measurement_name = "solar_statistics" THEN StatsKeys
    ELSE RatedKeys

\* C20: log_realtime_data, log_statistics and log_rated_data write a point
\* only after their snapshot read returned a non-empty mapping, and the
\* point's fields are those of that one snapshot; when the read returns None
\* the operation writes nothing and returns False, and run_continuous_log
\* goes on to the next data type (and from the last one to the next cycle).
C20_NoFailedSnapshotLogged ==
    /\ [](logged.type \in SnapshotLogs =>
             (/\ logged.snapshot = ret
              /\ logged.attempted =>
                    (/\ ret.t = "dict"
                     /\ DOMAIN ret.v = MeasurementKeys(logged.point.measurement)
                     /\ logged.point.fields = ret.v)
              /\ ret = PyNone =>
                    (~logged.attempted /\ ~logged.wrote /\ logged.result = FALSE)
              /\ logged.result = logged.wrote))
    /\ [](\A i \in 1..Len(db) :
             DOMAIN db[i].fields = MeasurementKeys(db[i].measurement))
    /\ [][db' # db =>
             (/\ db' = Append(db, logged'.point)
              /\ logged'.attempted
              /\ logged'.type \in SnapshotLogs
              /\ ret'.t = "dict"
              /\ logged'.point.fields = ret'.v)]_vars
    /\ [][(nOps' # nOps /\ op' \in SnapshotOps /\ ret' = PyNone) =>
             (/\ db' = db
              /\ loop' = "running"
              /\ pos' = pos + 1
              /\ cycle' = cycle)]_vars
    /\ [](loop = "running" =>
             (\/ pos <= Len(data_types)
              \/ cycle = MaxCycles
              \/ ENABLED NextCycle))

\* in the second cycle, with a point of the first cycle in the database, the
\* realtime read failed: nothing more was written, False came back, and the
\* loop stands at the next data type
C20_Witness ==
    /\ loop = "running"
    /\ cycle = 1
    /\ pos = 2
    /\ logged.type = "realtime"
    /\ ret = PyNone
    /\ logged.result = FALSE
    /\ Len(db) = 1
    /\ db[1].measurement = "solar_realtime"


============================================================================
